---- MODULE Spec2Model ----
(***************************************************************************)
(* Model of package resample (resample.go): a Resampler that owns one     *)
(* soxr engine handle, validates its configuration in New, pushes whole   *)
(* frames through soxr_process in Write, and flushes in Reset and Close.  *)
(*                                                                         *)
(* A byte slice is modelled by its length; the engine (libsoxr) and the   *)
(* destination io.Writer are outside the package and are modelled by the  *)
(* outcomes their interfaces allow: soxr_create/soxr_process may report   *)
(* an error, soxr_process may take fewer frames than offered and give     *)
(* fewer than the capacity, the destination may fail a write.             *)
(***************************************************************************)
EXTENDS Integers, Sequences, FiniteSets, TLC

(* ---------------------------- bounds ---------------------------------- *)

\* Number of calls (New, Write, Reset, Close) made in one behaviour.
MaxCalls == 4

(* ----------------------- program constants ---------------------------- *)

F32 == 0
F64 == 1
I32 == 2
I16 == 3

\* Largest accepted quality setting (quality < 0 || quality > 6).
MaxQuality == 6

\* Output capacity, in frames, of the flush call (4096 * 16).
FlushFrames == 65536

\* The quality setting the command-line program passes to New.
HighQ == 4

(* --------------------------- input sets ------------------------------- *)

NilWriter == "nil"
Writers == {"w1", "w2"}
WriterArgs == Writers \cup {NilWriter}
\* New is given the first writer or nil; Reset any of WriterArgs.
NewWriterArgs == {"w1", NilWriter}

RateArgs == {0, 1, 2}
ChannelArgs == {-1, 0, 1, 2}
\* One valid and one unknown format on each side, of different widths.
InFormatArgs == {I16, 4}
OutFormatArgs == {F32, 4}
QualityArgs == {-1, 4, 7}
\* Lengths of the byte slices passed to Write.
Lens == {0, 3, 4, 8}

(* ----------------------------- errors --------------------------------- *)

NoErr == "nil"
ErrWriterNil == "io.Writer is nil"
ErrRates == "invalid input or output sampling rates"
ErrChannels == "invalid channels number"
ErrQuality == "invalid quality setting"
ErrFormat == "invalid format setting"
ErrClosed == "soxr resampler is nil"
ErrIncomplete == "incomplete input frame data"
ErrNoOutput == "not enough input to generate output"
\* An error string reported by the engine (soxErr), passed on verbatim.
ErrEngine == "soxr error"
\* An error returned by destination.Write.
ErrDest == "destination write error"

ConfigErrors == {ErrWriterNil, ErrRates, ErrChannels, ErrQuality, ErrFormat}

(* ----------------------------- helpers -------------------------------- *)

Abs(x) == IF x < 0 THEN -x ELSE x
Min(a, b) == IF a < b THEN a ELSE b

\* Go integer division: truncates toward zero.
GoDiv(a, b) ==
    IF (a < 0) = (b < 0) THEN Abs(a) \div Abs(b) ELSE -(Abs(a) \div Abs(b))

\* sizeOf closure of New: byte width of a sample format, 0 with an error.
sizeOf(format) ==
    CASE format = F64 -> 8
      [] format = F32 -> 4
      [] format = I32 -> 4
      [] format = I16 -> 2
      [] OTHER -> 0

NilHandle == "nil"
Handle == "soxr"

VARIABLES
    constructed,  \* New has returned a Resampler
    r,            \* the Resampler's fields
    soxr,         \* the engine object behind the handle
    created,      \* number of soxr_create calls
    deleted,      \* number of soxr_delete calls
    misuse,       \* an engine call was issued on a handle that is not live
    epoch,        \* number of destination swaps done by Reset
    log,          \* the writes issued to destinations, in order
    last,         \* the last call and its result
    calls,        \* number of calls so far
    closes,       \* number of Close calls so far
    halted,       \* the process died in native code
    cli           \* the command-line program: where main is, its output file

vars == <<constructed, r, soxr, created, deleted, misuse, epoch, log, last,
          calls, closes, halted, cli>>

(* ------------------------------ Init ---------------------------------- *)

\* The zero value of a Resampler: what exists before New returns one.
NoResampler ==
    [resampler |-> NilHandle, inRate |-> 0, outRate |-> 0, channels |-> 0,
     inFrameSize |-> 0, outFrameSize |-> 0, destination |-> NilWriter]

\* An engine object that does not exist (never created, or deleted).
NoEngine == [live |-> FALSE, consumed |-> 0, produced |-> 0, src |-> {}]

\* The engine right after soxr_create or soxr_clear: nothing buffered.
FreshEngine == [live |-> TRUE, consumed |-> 0, produced |-> 0, src |-> {}]

\* The arguments of New.
Config(writer, inputRate, outputRate, channels, inFormat, outFormat, quality) ==
    [writer |-> writer, inputRate |-> inputRate, outputRate |-> outputRate,
     channels |-> channels, inFormat |-> inFormat, outFormat |-> outFormat,
     quality |-> quality]

NoConfig == Config(NilWriter, 0, 0, 0, 0, 0, 0)

\* What `last` keeps of the call before it.
NoPrev == [op |-> "none", err |-> NoErr, kind |-> "return", delete |-> 0]
Prev(call) ==
    [op |-> call.op, err |-> call.err, kind |-> call.kind,
     delete |-> call.delete]

\* A call and its result: the arguments (len for the slice of Write, writer
\* for Reset, cfg for New), the returned count and error, how the call
\* ended (kind), the engine and destination calls it made, and the handle
\* and destination it found.
NoCall ==
    [op |-> "none", len |-> 0, writer |-> NilWriter, cfg |-> NoConfig,
     n |-> 0, err |-> NoErr,
     kind |-> "return", proc |-> 0, framesIn |-> 0, framesOut |-> 0,
     read |-> 0, done |-> 0, writes |-> 0, create |-> 0, delete |-> 0,
     clear |-> 0, handle |-> NilHandle, dest |-> NilWriter, lost |-> 0,
     prev |-> NoPrev]

\* The command-line program before main has run: no output file yet, no
\* error from io.Copy, nothing closed, still running (status -1).
NoMain ==
    [pc |-> "start", file |-> "none", copyErr |-> NoErr, closed |-> << >>,
     status |-> -1]

Init ==
    /\ constructed = FALSE
    /\ r = NoResampler
    /\ soxr = NoEngine
    /\ created = 0
    /\ deleted = 0
    /\ misuse = FALSE
    /\ epoch = 0
    /\ log = << >>
    /\ last = NoCall
    /\ calls = 0
    /\ closes = 0
    /\ halted = FALSE
    /\ cli = NoMain

(* -------------------------- stream inputs ----------------------------- *)

\* One second of 2-channel 16-bit audio at 16000 Hz, resampled to 8000 Hz.
ScenarioConfig == Config("w1", 16000, 8000, 2, I16, I16, HighQ)
ScenarioLens == {64000}

\* A ratio that is not a power of two: mono 16-bit in, 11 Hz to 15 Hz.
RatioConfig == Config("w1", 11, 15, 1, I16, F32, HighQ)
RatioLens == {8, 22}

\* Downsampling by two, fed with slices of one to three stereo frames.
DownConfig == Config("w1", 2, 1, 2, I16, F32, HighQ)
DownLens == {4, 8, 12}

\* Upsampling by two, fed with slices of 40000 mono 16-bit frames.
FlushConfig == Config("w1", 1, 2, 1, I16, I16, HighQ)
FlushLens == {80000}

\* The command-line program: mono 16-bit at an unchanged rate; io.Copy
\* hands Write chunks of whole frames or, at the end of a truncated file,
\* a single trailing byte.
MainConfig == Config("w1", 1, 1, 1, I16, I16, HighQ)
MainLens == {1, 4}

StreamConfigs ==
    {ScenarioConfig, RatioConfig, DownConfig, FlushConfig, MainConfig}
AllLens ==
    Lens \cup ScenarioLens \cup RatioLens \cup DownLens \cup FlushLens
      \cup MainLens

(* ------------------------ float64 arithmetic -------------------------- *)

\* The rates are float64 and framesOut is computed in float64.  A positive
\* float64 is modelled by its significand, MantBits binary digits, most
\* significant (always 1) first, and the exponent e of that first digit:
\* its value is the sum of m[i] * 2^(e - (i - 1)).  Quotient and product
\* are rounded to nearest, ties to even, as the hardware does.

\* Number of significand bits of a float64.
MantBits == 53

\* The recursions below are functions: their arguments are values.
Bits == Seq({0, 1})

Pow2[n \in Nat] == IF n = 0 THEN 1 ELSE 2 * Pow2[n - 1]

\* The binary exponent of num/den: the e with 2^e <= num/den < 2^(e+1).
ExpUp[num \in Nat, den \in Nat, e \in Int] ==
    IF num >= 2 * den THEN ExpUp[num, 2 * den, e + 1] ELSE e
ExpDown[num \in Nat, den \in Nat, e \in Int] ==
    IF num < den THEN ExpDown[2 * num, den, e - 1] ELSE e
Exponent(num, den) ==
    IF num >= den THEN ExpUp[num, den, 0] ELSE ExpDown[num, den, 0]

\* Long division: the next k binary digits of rem/den (rem < den), and the
\* remainder left after them.
DivBits[rem \in Nat, den \in Nat, k \in Nat] ==
    IF k = 0 THEN << >>
    ELSE IF 2 * rem >= den
         THEN <<1>> \o DivBits[2 * rem - den, den, k - 1]
         ELSE <<0>> \o DivBits[2 * rem, den, k - 1]
DivRem[rem \in Nat, den \in Nat, k \in Nat] ==
    IF k = 0 THEN rem
    ELSE DivRem[IF 2 * rem >= den THEN 2 * rem - den ELSE 2 * rem, den, k - 1]

\* bits + 1, as a sequence one digit longer when every digit was 1.
IncBits[bits \in Bits] ==
    IF bits = << >> THEN <<1>>
    ELSE IF bits[Len(bits)] = 0
         THEN SubSeq(bits, 1, Len(bits) - 1) \o <<1>>
         ELSE IncBits[SubSeq(bits, 1, Len(bits) - 1)] \o <<0>>

\* Round to nearest even: m holds MantBits digits with exponent e, guard is
\* the next digit and sticky tells whether anything non-zero follows it.
RoundEven(m, e, guard, sticky) ==
    IF guard = 1 /\ (sticky \/ m[Len(m)] = 1)
    THEN LET up == IncBits[m]
         IN  IF Len(up) > Len(m)
             THEN [m |-> SubSeq(up, 1, Len(m)), e |-> e + 1]
             ELSE [m |-> up, e |-> e]
    ELSE [m |-> m, e |-> e]

\* float64(a) / float64(b) for integers a, b > 0.
FloatDiv(a, b) ==
    LET e == Exponent(a, b)
        num == IF e < 0 THEN a * Pow2[-e] ELSE a
        den == IF e > 0 THEN b * Pow2[e] ELSE b
        m == <<1>> \o DivBits[num - den, den, MantBits - 1]
        rest == DivRem[num - den, den, MantBits - 1]
        guard == IF 2 * rest >= den THEN 1 ELSE 0
        after == IF guard = 1 THEN 2 * rest - den ELSE 2 * rest
    IN  RoundEven(m, e, guard, after # 0)

\* bits * f for an integer f > 0, digit by digit from the least
\* significant; carry is what the digits to the right brought.
CarryBits[carry \in Nat] ==
    IF carry = 0 THEN << >> ELSE CarryBits[carry \div 2] \o <<carry % 2>>
MulBits[bits \in Bits, f \in Nat, carry \in Nat] ==
    IF bits = << >> THEN CarryBits[carry]
    ELSE LET acc == bits[Len(bits)] * f + carry
         IN  MulBits[SubSeq(bits, 1, Len(bits) - 1), f, acc \div 2]
               \o <<acc % 2>>

\* float64(f) * x for an integer f > 0 and a float64 x.
FloatMul(f, x) ==
    LET p == MulBits[x.m, f, 0]
        e == x.e + (Len(p) - MantBits)
        guard == IF Len(p) > MantBits THEN p[MantBits + 1] ELSE 0
        sticky == \E i \in (MantBits + 2)..Len(p) : p[i] = 1
    IN  RoundEven(SubSeq(p, 1, MantBits), e, guard, sticky)

BitsToInt[bits \in Bits] ==
    IF bits = << >> THEN 0
    ELSE 2 * BitsToInt[SubSeq(bits, 1, Len(bits) - 1)] + bits[Len(bits)]

\* int(x) for a float64 x > 0: the integer part.
FloatToInt(x) == IF x.e < 0 THEN 0 ELSE BitsToInt[SubSeq(x.m, 1, x.e + 1)]

\* Mutant of Float64Scale: the product is rounded up to the next integer.
Float64ScaleUp(framesIn, outRate, inRate) ==
    (framesIn * outRate + inRate - 1) \div inRate

\* int(float64(framesIn) * (outRate / inRate)) for framesIn > 0.
Float64Scale(framesIn, outRate, inRate) ==
    FloatToInt(FloatMul(framesIn, FloatDiv(outRate, inRate)))

\* The frame counts and rates the inputs above can bring to Write.
FrameCounts ==
    {Abs(GoDiv(GoDiv(len, sizeOf(f)), c)) :
        len \in AllLens, f \in {F32, F64, I32, I16}, c \in ChannelArgs \ {0}}
      \ {0}
Rates ==
    {x \in RateArgs : x > 0}
      \cup {c.inputRate : c \in StreamConfigs}
      \cup {c.outputRate : c \in StreamConfigs}

\* Float64Scale, computed once for every argument that occurs.
Float64ScaleTable ==
    [f \in FrameCounts, o \in Rates, i \in Rates |-> Float64Scale(f, o, i)]

\* framesOut := int(float64(framesIn) * (r.outRate / r.inRate)): the
\* conversion to int truncates toward zero, so a negative framesIn gives
\* the negated result of its absolute value.
RatioScale(framesIn, outRate, inRate) ==
    IF framesIn = 0 THEN 0
    ELSE IF framesIn < 0 THEN -Float64ScaleTable[-framesIn, outRate, inRate]
    ELSE Float64ScaleTable[framesIn, outRate, inRate]

(* ------------------------------ engine -------------------------------- *)

\* The output frames that correspond to a number of input frames at the
\* rate ratio, in exact arithmetic: what the engine owes for its input.
ExactScale(frames, outRate, inRate) == (frames * outRate) \div inRate

\* The values of 0..n the model lets the engine report for a count.
Choices(n) == {k \in {0, n - 1, n} : k >= 0 /\ k <= n}

\* Output frames the engine can still emit after taking `read` more input
\* frames: the ratio-scaled total of its input less what it has emitted.
Avail(eng, read, outRate, inRate) ==
    ExactScale(eng.consumed + read, outRate, inRate) - eng.produced

\* The engine after soxr_process took `read` frames of the input of the
\* current destination epoch and gave `done` frames.
Processed(eng, read, done, ep) ==
    [eng EXCEPT !.consumed = @ + read,
                !.produced = @ + done,
                !.src = IF read > 0 THEN @ \cup {ep} ELSE @]

\* One entry of the log: a call of destination.Write.
WriteEntry(dest, bytes, ok, ep, src, op) ==
    [dest |-> dest, bytes |-> bytes, ok |-> ok, epoch |-> ep,
     src |-> IF bytes > 0 THEN src ELSE {}, op |-> op]

\* r.destination.Write(b) on a non-nil destination: it succeeds or fails.
DestWrite == {NoErr, ErrDest}

\* Mutant of OutBytes: the channel count is left out.
OutBytesOneChannel(done, rr) == done * rr.outFrameSize

\* C.GoBytes(outBuf, int(done) * r.channels * r.outFrameSize): the length
\* of the slice handed to the destination.
OutBytes(done, rr) == done * rr.channels * rr.outFrameSize

\* What a call did, as the actions below record it in `last`.
Outcome(kind, n, err, eng, entries, proc, framesIn, framesOut, read, done) ==
    [kind |-> kind, n |-> n, err |-> err, eng |-> eng, entries |-> entries,
     proc |-> proc, framesIn |-> framesIn, framesOut |-> framesOut,
     read |-> read, done |-> done]

(* ------------------------------ flush --------------------------------- *)

\* Mutant of flush: what the engine gives is never handed to the
\* destination.
flushDropsOutput(rr, eng, ep, op) ==
    LET done == Min(FlushFrames, Avail(eng, 0, rr.outRate, rr.inRate))
    IN  {Outcome("return", 0, NoErr, Processed(eng, 0, done, ep), << >>, 1, 0,
                 FlushFrames, 0, done)}

\* Resampler.flush: one soxr_process call with no input and a capacity of
\* FlushFrames frames, then one destination.Write of what it gave.  The
\* result is the set of outcomes: "return" with the error, "panic" when
\* the destination is nil (a method call on a nil interface), "crash" when
\* native code faults.  With channels < 0 the size passed to malloc wraps
\* to a huge size_t, the buffer is NULL and a capacity of FlushFrames is
\* still announced: the call faults, fails, or gives nothing.
flush(rr, eng, ep, op) ==
    IF rr.channels < 0
    THEN {Outcome("crash", 0, NoErr, eng, << >>, 1, 0, FlushFrames, 0, 0),
          Outcome("return", 0, ErrEngine, eng, << >>, 1, 0, FlushFrames, 0, 0)}
         \cup
         (IF rr.destination = NilWriter
          THEN {Outcome("panic", 0, NoErr, eng, << >>, 1, 0, FlushFrames, 0, 0)}
          ELSE {Outcome("return", 0, e, eng,
                        <<WriteEntry(rr.destination, 0, e = NoErr, ep, {}, op)>>,
                        1, 0, FlushFrames, 0, 0) : e \in DestWrite})
    ELSE LET done == Min(FlushFrames, Avail(eng, 0, rr.outRate, rr.inRate))
             eng2 == Processed(eng, 0, done, ep)
             bytes == OutBytes(done, rr)
         IN  {Outcome("return", 0, ErrEngine, eng, << >>, 1, 0, FlushFrames, 0, 0)}
             \cup
             (IF rr.destination = NilWriter
              THEN {Outcome("panic", 0, NoErr, eng2, << >>, 1, 0, FlushFrames, 0, done)}
              ELSE {Outcome("return", 0, e, eng2,
                            <<WriteEntry(rr.destination, bytes, e = NoErr, ep,
                                         eng2.src, op)>>,
                            1, 0, FlushFrames, 0, done) : e \in DestWrite})

(* ------------------------------ Write --------------------------------- *)

\* Mutant of Consumed: the count is set to len(p) whatever the error.
ConsumedAlways(len, err) == len

\* The count Write returns: len(p) when no error was met, else 0.
Consumed(len, err) == IF err = NoErr THEN len ELSE 0

\* framesIn := len(p) / r.inFrameSize / r.channels
FramesIn(len, rr) == GoDiv(GoDiv(len, rr.inFrameSize), rr.channels)

\* Resampler.Write from the computation of framesIn on, as the set of its
\* outcomes.  With channels < 0, framesIn and framesOut are negative
\* and wrap to huge size_t counts: soxr_process then reads and writes past
\* both buffers, so the call faults, fails, or gives nothing; a non-zero
\* count would make the length passed to C.GoBytes negative (panic).
WriteFrames(len, rr, eng, ep) ==
    LET framesIn == FramesIn(len, rr) IN
    IF framesIn = 0
    THEN {Outcome("return", 0, ErrIncomplete, eng, << >>, 0, 0, 0, 0, 0)}
    ELSE
    LET framesOut == RatioScale(framesIn, rr.outRate, rr.inRate) IN
    IF framesOut = 0
    THEN {Outcome("return", 0, ErrNoOutput, eng, << >>, 0, framesIn, 0, 0, 0)}
    ELSE
    IF framesIn < 0 \/ framesOut < 0
    THEN {Outcome("crash", 0, NoErr, eng, << >>, 1, framesIn, framesOut, 0, 0),
          Outcome("panic", 0, NoErr, eng, << >>, 1, framesIn, framesOut, 0, 0),
          Outcome("return", 0, ErrEngine, eng, << >>, 1, framesIn, framesOut, 0, 0)}
         \cup
         (IF rr.destination = NilWriter
          THEN {}
          ELSE {Outcome("return", Consumed(len, e), e, eng,
                        <<WriteEntry(rr.destination, 0, e = NoErr, ep, {}, "Write")>>,
                        1, framesIn, framesOut, 0, 0) : e \in DestWrite})
    ELSE
    {Outcome("return", Consumed(len, ErrEngine), ErrEngine, eng, << >>, 1,
             framesIn, framesOut, 0, 0)}
    \cup
    UNION {
      UNION {
        LET eng2 == Processed(eng, read, done, ep)
            bytes == OutBytes(done, rr)
        IN  IF rr.destination = NilWriter
            THEN {Outcome("panic", 0, NoErr, eng2, << >>, 1, framesIn,
                          framesOut, read, done)}
            ELSE {Outcome("return", Consumed(len, e), e, eng2,
                          <<WriteEntry(rr.destination, bytes, e = NoErr, ep,
                                       eng2.src, "Write")>>,
                          1, framesIn, framesOut, read, done) : e \in DestWrite}
        : done \in Choices(Min(framesOut, Avail(eng, read, rr.outRate, rr.inRate)))}
      : read \in Choices(framesIn)}

\* Mutant of WriteBody: the check for an empty slice is missing.
WriteBodyNoEmptyCheck(len, rr, eng, ep) == WriteFrames(len, rr, eng, ep)

\* The body of Resampler.Write after the nil-handle check: an empty slice
\* returns at once, anything else goes on to the frame computation.
WriteBody(len, rr, eng, ep) ==
    IF len = 0
    THEN {Outcome("return", 0, NoErr, eng, << >>, 0, 0, 0, 0, 0)}
    ELSE WriteFrames(len, rr, eng, ep)

(* ------------------------------- New ---------------------------------- *)

\* The checks of New, in order; NoErr when the configuration passes.
Validate(writer, inputRate, outputRate, channels, inFormat, outFormat, quality) ==
    CASE writer = NilWriter -> ErrWriterNil
      [] inputRate <= 0 \/ outputRate <= 0 -> ErrRates
      [] channels = 0 -> ErrChannels
      [] quality < 0 \/ quality > MaxQuality -> ErrQuality
      [] sizeOf(inFormat) = 0 -> ErrFormat
      [] sizeOf(outFormat) = 0 -> ErrFormat
      [] OTHER -> NoErr

\* The Resampler New builds once soxr_create has given a handle.
NewResampler(writer, inputRate, outputRate, channels, inFormat, outFormat) ==
    [resampler |-> Handle, inRate |-> inputRate, outRate |-> outputRate,
     channels |-> channels, inFrameSize |-> sizeOf(inFormat),
     outFrameSize |-> sizeOf(outFormat), destination |-> writer]

\* Mutant of NewBody: soxr_create is called before the checks.
NewBodyCreateFirst(writer, inputRate, outputRate, channels, inFormat, outFormat, quality) ==
    LET verr == Validate(writer, inputRate, outputRate, channels, inFormat,
                         outFormat, quality)
    IN  IF verr # NoErr
        THEN {[err |-> verr, create |-> 1, ok |-> FALSE]}
        ELSE {[err |-> NoErr, create |-> 1, ok |-> TRUE],
              [err |-> ErrEngine, create |-> 1, ok |-> FALSE]}

\* The outcomes of New: the error, the number of soxr_create calls made and
\* whether a handle came back.  soxr_create is reached only after every
\* check has passed, and may itself report an error.
NewBody(writer, inputRate, outputRate, channels, inFormat, outFormat, quality) ==
    LET verr == Validate(writer, inputRate, outputRate, channels, inFormat,
                         outFormat, quality)
    IN  IF verr # NoErr
        THEN {[err |-> verr, create |-> 0, ok |-> FALSE]}
        ELSE {[err |-> NoErr, create |-> 1, ok |-> TRUE],
              [err |-> ErrEngine, create |-> 1, ok |-> FALSE]}

New(writer, inputRate, outputRate, channels, inFormat, outFormat, quality) ==
    /\ calls = 0
    /\ \E o \in NewBody(writer, inputRate, outputRate, channels, inFormat,
                        outFormat, quality) :
         /\ created' = created + o.create
         /\ constructed' = o.ok
         /\ r' = IF o.ok
                 THEN NewResampler(writer, inputRate, outputRate, channels,
                                   inFormat, outFormat)
                 ELSE r
         /\ soxr' = IF o.ok THEN FreshEngine ELSE soxr
         /\ last' = [NoCall EXCEPT !.op = "New",
                                   !.cfg = Config(writer, inputRate, outputRate,
                                                  channels, inFormat,
                                                  outFormat, quality),
                                   !.err = o.err, !.create = o.create,
                                   !.handle = IF o.ok THEN Handle ELSE NilHandle]
    /\ UNCHANGED <<deleted, misuse, epoch, log, halted, closes>>

(* ------------------------- Write, Reset, Close ------------------------ *)

\* Mutant of IsClosed: the nil-handle guard is missing.
IsClosedNever(rr) == FALSE

\* if r.resampler == nil: the guard at the head of Write, Reset and Close.
IsClosed(rr) == rr.resampler = NilHandle

\* The record of a call that went through flush or WriteBody.
Called(op, len, writer, rr, o) ==
    [NoCall EXCEPT !.op = op, !.len = len, !.writer = writer, !.n = o.n,
                   !.err = o.err, !.kind = o.kind, !.proc = o.proc,
                   !.framesIn = o.framesIn, !.framesOut = o.framesOut,
                   !.read = o.read, !.done = o.done,
                   !.writes = Len(o.entries), !.handle = rr.resampler,
                   !.dest = rr.destination, !.prev = Prev(last)]

\* The record of a call refused because the handle is nil.
Refused(op, len, writer, rr) ==
    [NoCall EXCEPT !.op = op, !.len = len, !.writer = writer,
                   !.err = ErrClosed, !.handle = rr.resampler,
                   !.dest = rr.destination, !.prev = Prev(last)]

Write(len) ==
    /\ constructed
    /\ IF IsClosed(r)
       THEN /\ last' = Refused("Write", len, NilWriter, r)
            /\ UNCHANGED <<soxr, log, misuse, halted>>
       ELSE \E o \in WriteBody(len, r, soxr, epoch) :
              /\ soxr' = o.eng
              /\ log' = log \o o.entries
              /\ misuse' = (misuse \/ (o.proc > 0 /\ ~soxr.live))
              /\ halted' = (o.kind = "crash")
              /\ last' = Called("Write", len, NilWriter, r, o)
    /\ UNCHANGED <<constructed, r, created, deleted, epoch, closes>>

\* Mutant of ResetFlushes: the destination is replaced before the flush.
ResetFlushesNew(rr, writer) == [rr EXCEPT !.destination = writer]

\* The Resampler whose flush Reset runs: the destination is still the old
\* one, it is replaced only after flush has returned.
ResetFlushes(rr, writer) == rr

\* Mutant of ResetSwaps: Reset returns the flush error before the swap.
ResetSwapsOnSuccess(o) == o.kind = "return" /\ o.err = NoErr

\* Reset goes on to replace the destination and clear the engine whenever
\* flush has returned, with or without an error.
ResetSwaps(o) == o.kind = "return"

\* soxr_clear: the engine forgets everything buffered, the handle stays.
Cleared(eng) == [FreshEngine EXCEPT !.live = eng.live]

Reset(writer) ==
    /\ constructed
    /\ IF IsClosed(r)
       THEN /\ last' = Refused("Reset", 0, writer, r)
            /\ UNCHANGED <<r, soxr, log, misuse, halted, epoch>>
       ELSE \E o \in flush(ResetFlushes(r, writer), soxr, epoch, "Reset") :
              /\ log' = log \o o.entries
              /\ misuse' = (misuse \/ ~soxr.live)
              /\ halted' = (o.kind = "crash")
              /\ IF ResetSwaps(o)
                 THEN /\ r' = [r EXCEPT !.destination = writer]
                      /\ epoch' = epoch + 1
                      /\ soxr' = Cleared(o.eng)
                      /\ last' = [Called("Reset", 0, writer, r, o)
                                    EXCEPT !.clear = 1]
                 ELSE /\ soxr' = o.eng
                      /\ last' = Called("Reset", 0, writer, r, o)
                      /\ UNCHANGED <<r, epoch>>
    /\ UNCHANGED <<constructed, created, deleted, closes>>

\* Mutant of HandleAfterClose: Close leaves the deleted handle in place.
HandleKept(h) == h

\* r.resampler = nil, after soxr_delete.
HandleAfterClose(h) == NilHandle

\* The output frames still inside the engine when soxr_delete destroys it.
Lost(rr, eng) == Avail(eng, 0, rr.outRate, rr.inRate)

Close ==
    /\ constructed
    /\ closes' = closes + 1
    /\ IF IsClosed(r)
       THEN /\ last' = Refused("Close", 0, NilWriter, r)
            /\ UNCHANGED <<r, soxr, log, misuse, halted, deleted>>
       ELSE \E o \in flush(r, soxr, epoch, "Close") :
              /\ log' = log \o o.entries
              /\ misuse' = (misuse \/ ~soxr.live)
              /\ halted' = (o.kind = "crash")
              /\ IF o.kind = "return"
                 THEN /\ soxr' = NoEngine
                      /\ deleted' = deleted + 1
                      /\ r' = [r EXCEPT !.resampler = HandleAfterClose(@)]
                      /\ last' = [Called("Close", 0, NilWriter, r, o)
                                    EXCEPT !.delete = 1,
                                           !.lost = Lost(r, o.eng)]
                 ELSE /\ soxr' = o.eng
                      /\ last' = Called("Close", 0, NilWriter, r, o)
                      /\ UNCHANGED <<r, deleted>>
    /\ UNCHANGED <<constructed, created, epoch>>

(* --------------------------- specification ---------------------------- *)

\* A call is made while the process is alive and calls remain.
CanCall == ~halted /\ calls < MaxCalls

Next ==
    /\ CanCall
    /\ calls' = calls + 1
    /\ \/ \E writer \in NewWriterArgs, inputRate \in RateArgs,
            outputRate \in RateArgs, channels \in ChannelArgs,
            inFormat \in InFormatArgs, outFormat \in OutFormatArgs,
            quality \in QualityArgs :
            New(writer, inputRate, outputRate, channels, inFormat, outFormat,
                quality)
       \/ \E len \in Lens : Write(len)
       \/ \E writer \in WriterArgs : Reset(writer)
       \/ Close
    /\ UNCHANGED cli

Spec == Init /\ [][Next]_vars

\* One stream from New to Close with a fixed configuration, as a caller
\* that feeds slices of the given lengths makes it.
Stream(c, lens) ==
    /\ CanCall
    /\ calls' = calls + 1
    /\ \/ New(c.writer, c.inputRate, c.outputRate, c.channels, c.inFormat,
              c.outFormat, c.quality)
       \/ \E len \in lens : Write(len)
       \/ Close
    /\ UNCHANGED cli

NextScenario == Stream(ScenarioConfig, ScenarioLens)
SpecScenario == Init /\ [][NextScenario]_vars

NextRatio == Stream(RatioConfig, RatioLens)
SpecRatio == Init /\ [][NextRatio]_vars

NextDown == Stream(DownConfig, DownLens)
SpecDown == Init /\ [][NextDown]_vars

NextFlush == Stream(FlushConfig, FlushLens)
SpecFlush == Init /\ [][NextFlush]_vars

(* ----------------------- command-line program ------------------------ *)

\* An error io.Copy got from reading the input file.
ErrRead == "input read error"

\* The variables of the package, which main touches only through calls.
libVars == <<constructed, r, soxr, created, deleted, misuse, epoch, log,
             last, calls, closes, halted>>

\* output, err := os.Create(outputFile): on an error main logs it and
\* exits before any output file exists.
MainCreate ==
    /\ cli.pc = "start"
    /\ \E ok \in BOOLEAN :
         cli' = IF ok
                THEN [cli EXCEPT !.pc = "new", !.file = "open"]
                ELSE [cli EXCEPT !.pc = "done", !.status = 1]
    /\ UNCHANGED libVars

\* res, err := resample.New(output, ...) with the arguments main has
\* checked; on an error main closes and removes the output file and exits
\* through log.Fatalln.
MainNew ==
    /\ cli.pc = "new"
    /\ calls' = calls + 1
    /\ New(MainConfig.writer, MainConfig.inputRate, MainConfig.outputRate,
           MainConfig.channels, MainConfig.inFormat, MainConfig.outFormat,
           MainConfig.quality)
    /\ cli' = IF last'.err # NoErr
              THEN [cli EXCEPT !.pc = "done", !.file = "removed",
                               !.closed = <<"output">>, !.status = 1]
              ELSE [cli EXCEPT !.pc = "copy"]

\* One round of io.Copy(res, input): a chunk read from the input goes to
\* res.Write; an error from Write ends the copy with that error.
MainCopy(len) ==
    /\ cli.pc = "copy"
    /\ CanCall
    /\ calls' = calls + 1
    /\ Write(len)
    /\ cli' = IF last'.err # NoErr
              THEN [cli EXCEPT !.pc = "close", !.copyErr = last'.err]
              ELSE cli

\* io.Copy ends: the input is exhausted (nil) or a read failed.
MainEOF ==
    /\ cli.pc = "copy"
    /\ \E e \in {NoErr, ErrRead} :
         cli' = [cli EXCEPT !.pc = "close", !.copyErr = e]
    /\ UNCHANGED libVars

\* res.Close(), whose result is dropped; output.Close(); then, if io.Copy
\* gave an error, os.Remove(outputFile) and log.Fatalln, else main returns.
MainFinish ==
    /\ cli.pc = "close"
    /\ calls' = calls + 1
    /\ Close
    /\ cli' = [cli EXCEPT !.pc = "done",
                          !.closed = <<"res", "output">>,
                          !.file = IF cli.copyErr # NoErr
                                   THEN "removed" ELSE "closed",
                          !.status = IF cli.copyErr # NoErr THEN 1 ELSE 0]

NextMain ==
    \/ MainCreate
    \/ MainNew
    \/ \E len \in MainLens : MainCopy(len)
    \/ MainEOF
    \/ MainFinish

SpecMain == Init /\ [][NextMain]_vars

(* ------------------------------ claims -------------------------------- *)

\* The stream is Active while the Resampler holds a handle.
Active == constructed /\ ~IsClosed(r)

\* The call recorded in `last` was made on an Active stream.
OnActive(op) == last.op = op /\ last.handle # NilHandle

\* The call before the one in `last` was the first Close and succeeded.
AfterSuccessfulClose ==
    last.prev.op = "Close" /\ last.prev.delete = 1 /\ last.prev.err = NoErr

\* C1: after a successful first Close, a second Close fails with the
\* nil-handle (protocol-misuse) error, and a Write of any slice fails with
\* that error and returns 0.
C1_ClosedRefuses ==
    (AfterSuccessfulClose /\ last.op \in {"Close", "Write"})
        => /\ last.kind = "return"
           /\ last.err = ErrClosed
           /\ last.n = 0
           /\ last.proc = 0 /\ last.writes = 0 /\ last.delete = 0

C1_Witness ==
    /\ AfterSuccessfulClose
    /\ last.op = "Write" /\ last.len > 0
    /\ last.err = ErrClosed /\ last.n = 0

\* C2 (the claim as stated, for a Resampler with channels >= 1): the handle
\* is destroyed at most once, it is destroyed exactly when the first Close
\* call runs, and no engine call is issued on a destroyed handle.
C2_DestroyedAtFirstClose ==
    (constructed /\ r.channels >= 1)
        => /\ deleted <= 1
           /\ (deleted = 1) = (closes >= 1)
           /\ ~misuse

\* The parts of C2 that hold: soxr_delete runs at most once and only inside
\* Close, the handle field is nil from then on, and every engine call finds
\* a live handle.
DestroyedAtMostOnce ==
    /\ deleted <= 1
    /\ deleted <= closes
    /\ (deleted = 1) = (constructed /\ IsClosed(r))
    /\ (constructed /\ ~IsClosed(r)) = soxr.live
    /\ ~misuse

\* C3 (the claim as stated): on an Active stream with channels >= 1, a
\* Write whose length is not a multiple of channels * inFrameSize fails
\* with an input-shape error, returns 0, and reaches neither the engine nor
\* the destination.
C3_PartialFrameRejected ==
    (OnActive("Write") /\ r.channels >= 1
       /\ last.len % (r.channels * r.inFrameSize) # 0)
        => /\ last.kind = "return"
           /\ last.err \in {ErrIncomplete, ErrNoOutput}
           /\ last.n = 0
           /\ last.proc = 0 /\ last.writes = 0
           /\ Active

\* C4: a Write that returns gives (len(p), nil) or (0, error), nothing else.
C4_AllOrNothing ==
    (last.op = "Write" /\ last.kind = "return")
        => \/ last.n = last.len /\ last.err = NoErr
           \/ last.n = 0 /\ last.err # NoErr

\* A Write failed at the destination after the engine took its input.
C4_Witness ==
    /\ last.op = "Write" /\ last.kind = "return"
    /\ last.read > 0 /\ last.done > 0
    /\ last.err = ErrDest /\ last.n = 0

\* C5 (the claim as stated): a Write that returns len(p) without error had
\* all its framesIn frames taken by the engine.
C5_AllFramesAccepted ==
    (OnActive("Write") /\ r.channels >= 1 /\ last.len > 0
       /\ last.kind = "return" /\ last.err = NoErr /\ last.n = last.len)
        => last.read = last.framesIn

\* C6: Write of an empty slice on an Active stream returns (0, nil), calls
\* neither soxr_process nor destination.Write, and leaves the stream as it
\* was.
C6_EmptyWrite ==
    [][(Active /\ last'.op = "Write" /\ last'.len = 0 /\ calls' = calls + 1)
         => /\ last'.kind = "return" /\ last'.n = 0 /\ last'.err = NoErr
            /\ last'.proc = 0
            /\ log' = log
            /\ soxr' = soxr
            /\ r' = r]_vars

C6_Witness ==
    /\ OnActive("Write") /\ last.len = 0
    /\ last.err = NoErr /\ last.n = 0
    /\ last.prev.op = "Write"
    /\ soxr.consumed > soxr.produced

\* C7: every destination write goes to the destination the Resampler held
\* when the call began, so the flush of Reset goes to the old destination
\* and nothing reaches the new one before Reset has returned; and what is
\* written carries only data of input submitted since that destination was
\* installed.
C7_ResetFlushesOld ==
    [][\A i \in (Len(log) + 1)..Len(log') :
          /\ log'[i].dest = r.destination
          /\ log'[i].epoch = epoch
          /\ log'[i].src \subseteq {log'[i].epoch}]_vars

\* A Reset flushed buffered frames to the old destination, and a later
\* Write produced output on the new, different destination.
C7_Witness ==
    \E i, j \in DOMAIN log :
        /\ i < j
        /\ log[i].op = "Reset" /\ log[i].bytes > 0 /\ log[i].ok
        /\ log[j].op = "Write" /\ log[j].bytes > 0
        /\ log[j].epoch = log[i].epoch + 1
        /\ log[j].dest # log[i].dest
        /\ log[j].dest = r.destination

\* C8 (the claim as stated, for a Resampler with channels >= 1): the first
\* Close of an Active stream destroys the handle and leaves the stream
\* Closed, whatever flush did.
C8_CloseAlwaysReleases ==
    (OnActive("Close") /\ r.channels >= 1)
        => /\ last.delete = 1
           /\ IsClosed(r)
           /\ ~soxr.live

\* The part of C8 that holds: a Close of an Active stream that returns has
\* destroyed the handle and closed the stream, with or without an error.
CloseThatReturnsReleases ==
    (OnActive("Close") /\ last.kind = "return")
        => /\ last.delete = 1
           /\ IsClosed(r)
           /\ ~soxr.live

\* The configurations the specification lets New accept.
Valid(cfg) ==
    /\ cfg.writer # NilWriter
    /\ cfg.inputRate > 0 /\ cfg.outputRate > 0
    /\ cfg.channels >= 1
    /\ cfg.quality >= 0 /\ cfg.quality <= MaxQuality
    /\ cfg.inFormat \in {F32, F64, I32, I16}
    /\ cfg.outFormat \in {F32, F64, I32, I16}

\* C9 (the claim as stated): New returns a Resampler only for a valid
\* configuration, and for every other one a configuration error and no
\* Resampler.
C9_NewAcceptsOnlyValid ==
    last.op = "New"
        => /\ constructed => Valid(last.cfg)
           /\ ~Valid(last.cfg) => (last.err \in ConfigErrors /\ ~constructed)

\* C10: when New fails with a configuration error, soxr_create has not been
\* called, no handle exists and nothing was written to the destination.
C10_ConfigErrorBeforeCreate ==
    (last.op = "New" /\ last.err \in ConfigErrors)
        => /\ last.create = 0 /\ created = 0
           /\ ~soxr.live
           /\ ~constructed /\ IsClosed(r)
           /\ log = << >>

C10_Witness ==
    /\ last.op = "New" /\ last.err = ErrRates
    /\ last.cfg.writer # NilWriter
    /\ last.cfg.inputRate > 0 /\ last.cfg.outputRate = 0
    /\ created = 0

\* C11 (the claim as stated): the error New returns when only the output
\* format is unknown differs from the one it returns when only the input
\* format is unknown.
C11_FormatSideTold ==
    (last.op = "New" /\ last.err # NoErr
       /\ sizeOf(last.cfg.inFormat) # 0 /\ sizeOf(last.cfg.outFormat) = 0)
        => \A f \in InFormatArgs, g \in OutFormatArgs :
             (sizeOf(f) = 0 /\ sizeOf(g) # 0)
                 => last.err # Validate(last.cfg.writer, last.cfg.inputRate,
                                        last.cfg.outputRate, last.cfg.channels,
                                        f, g, last.cfg.quality)

\* C12: a call never alters or reorders what earlier calls wrote, it adds
\* at most one destination write, and a Write or Close that reaches the
\* engine and returns without error adds exactly the engine's output of
\* that call (done frames) to the current destination.
C12_OutputInCallOrder ==
    [][calls' = calls + 1
         => /\ Len(log') = Len(log) + last'.writes
            /\ last'.writes <= 1
            /\ SubSeq(log', 1, Len(log)) = log
            /\ (last'.op \in {"Write", "Close"} /\ last'.kind = "return"
                  /\ last'.err = NoErr /\ last'.proc = 1)
                 => /\ last'.writes = 1
                    /\ log'[Len(log')].dest = r.destination
                    /\ log'[Len(log')].op = last'.op
                    /\ log'[Len(log')].ok
                    /\ log'[Len(log')].bytes
                         = last'.done * r.channels * r.outFrameSize]_vars

\* Two successful Writes and the closing flush each put output on the one
\* destination, in that order.
C12_Witness ==
    /\ Len(log) = 3
    /\ last.op = "Close" /\ last.err = NoErr /\ last.delete = 1
    /\ log[1].op = "Write" /\ log[2].op = "Write" /\ log[3].op = "Close"
    /\ \A i \in 1..3 : log[i].ok /\ log[i].bytes > 0 /\ log[i].dest = "w1"

\* The bytes the destination has taken: the sum over the first n writes of
\* the log that succeeded.
RECURSIVE Written(_, _)
Written(lg, n) ==
    IF n = 0 THEN 0
    ELSE Written(lg, n - 1) + (IF lg[n].ok THEN lg[n].bytes ELSE 0)

\* New, one Write and Close have all succeeded, and what the engine gave in
\* the Write and in the flush is within one frame of the input frames
\* scaled by outRate/inRate.
ScenarioRan ==
    /\ calls = 2 /\ OnActive("Write") /\ last.err = NoErr
    /\ last'.op = "Close" /\ last'.err = NoErr /\ last'.kind = "return"
    /\ Abs(last.done + last'.done
             - ExactScale(last.framesIn, r.outRate, r.inRate)) <= 1

\* C13 (the claim as stated): in the 16000 Hz to 8000 Hz, 2-channel, 16-bit
\* scenario, one Write of 64000 bytes followed by Close leaves 16000 bytes,
\* give or take one output frame, in the destination.
C13_ScenarioBytesClaimed ==
    [][ScenarioRan
         => Abs(Written(log', Len(log')) - 16000)
              <= r.channels * r.outFrameSize]_vars

\* C13 (amended): the destination holds 32000 bytes, give or take one
\* output frame: 8000 frames of 2 channels of 2 bytes.
C13_ScenarioBytes ==
    [][ScenarioRan
         => Abs(Written(log', Len(log')) - 32000)
              <= r.channels * r.outFrameSize]_vars

C13_Witness ==
    /\ calls = 3 /\ OnActive("Close") /\ last.err = NoErr
    /\ last.prev.op = "Write" /\ last.prev.err = NoErr
    /\ Len(log) = 2 /\ log[1].bytes > 0 /\ log[2].bytes > 0
    /\ Written(log, Len(log)) = 32000

\* C14 (the claim as stated, for a Resampler with channels >= 1): a Write on
\* an Active stream that reaches the engine calls soxr_process once, with
\* framesIn = floor(len / (channels * inFrameSize)) input frames and a
\* capacity of framesOut = floor(framesIn * outRate / inRate) frames, and
\* hands the destination done * channels * outFrameSize bytes, never more
\* than the buffer of framesOut * channels * outFrameSize bytes.
C14_ProcessArguments ==
    (OnActive("Write") /\ last.proc > 0 /\ r.channels >= 1)
        => /\ last.proc = 1
           /\ last.framesIn = last.len \div (r.channels * r.inFrameSize)
           /\ last.framesOut = (last.framesIn * r.outRate) \div r.inRate
           /\ last.done <= last.framesOut
           /\ last.writes = 1
                => log[Len(log)].bytes
                     = last.done * r.channels * r.outFrameSize

C16_CloseLeavesNothing ==
    (OnActive("Close") /\ last.kind = "return" /\ last.err = NoErr
       /\ r.channels >= 1)
        => last.lost = 0

\* C17: once the handle is destroyed the stream stays Closed: every later
\* Write, Reset and Close is refused with the nil-handle error, makes no
\* engine call and no destination write, and a refused Reset leaves the
\* destination as it was.
C17_ClosedIsTerminal ==
    /\ deleted >= 1 => (r.resampler = NilHandle /\ ~soxr.live)
    /\ (constructed /\ last.op \in {"Write", "Reset", "Close"}
          /\ last.handle = NilHandle)
         => /\ last.kind = "return" /\ last.err = ErrClosed /\ last.n = 0
            /\ last.proc = 0 /\ last.writes = 0
            /\ last.clear = 0 /\ last.delete = 0
            /\ r.resampler = NilHandle /\ ~soxr.live
            /\ r.destination = last.dest

\* A Reset with another, non-nil writer was refused on a Closed stream.
C17_Witness ==
    /\ last.op = "Reset" /\ last.handle = NilHandle /\ last.err = ErrClosed
    /\ last.writer \in Writers /\ last.writer # r.destination
    /\ deleted = 1

\* C18: a Reset of an Active stream whose flush returns an error (from the
\* engine or from the old destination) still installs the new destination
\* and clears the engine, keeps the handle, and returns that error.
C18_ResetSwapsOnFlushError ==
    (OnActive("Reset") /\ last.kind = "return" /\ last.err # NoErr)
        => /\ last.err \in {ErrEngine, ErrDest}
           /\ r.destination = last.writer
           /\ last.clear = 1
           /\ soxr = FreshEngine
           /\ Active /\ r.resampler = last.handle

\* The old destination failed the flush of buffered frames, and the new
\* destination is installed on a cleared engine.
C18_Witness ==
    /\ OnActive("Reset") /\ last.err = ErrDest /\ last.done > 0
    /\ last.writer \in Writers /\ last.writer # last.dest
    /\ r.destination = last.writer
    /\ soxr = FreshEngine

\* main has ended after a failure that came once the output file existed:
\* New failed, io.Copy gave an error, or res.Close() returned one.
MainFailed ==
    /\ cli.pc = "done" /\ cli.file # "none"
    /\ \/ last.op = "New" /\ last.err # NoErr
       \/ cli.copyErr # NoErr
       \/ last.op = "Close" /\ last.err # NoErr

\* C19 (the claim as stated): in the command-line program every failure
\* after the output file was created ends with the file removed and a
\* non-zero exit status, and the Resampler, when there is one, is closed
\* before the output file.
C19_FailureRemovesOutput ==
    /\ MainFailed => (cli.file = "removed" /\ cli.status # 0)
    /\ (cli.pc = "done" /\ constructed) => cli.closed = <<"res", "output">>

\* C20 (the claim as stated): while the stream is Active its destination
\* is not nil.
C20_ActiveHasDestination ==
    Active => r.destination # NilWriter

====
